---- MODULE Spec2Model ----
(***************************************************************************)
(* Model of giubueno/auto-translate:                                       *)
(*   - AudioBuilder._build_synced and _build_sequential                    *)
(*     (translation/audio_builder.py): the assembly of timed speech clips; *)
(*   - ChatterboxVoiceCloner.generate_speech / voice_over_chatterbox       *)
(*     (translation/utils/chatterbox_tts.py): the per-clip generation;     *)
(*   - clean_chatterbox_audio / _process_audio / AudioCleaner              *)
(*     (translation/utils/denoise.py): the external-tool denoise pipeline. *)
(* Times are integers in milliseconds, as in pydub.                        *)
(***************************************************************************)
EXTENDS Integers, Sequences, FiniteSets, TLC

VARIABLES
    \* ---- AudioBuilder._build_synced ----
    voice_over_results, \* the caller's list of VoiceOverResult (read-only)
    bpc,                \* position inside _build_synced
    audio_segments,     \* working list of (audio_file, start_time, duration)
    sorted_segments,    \* history: audio_segments right after the sort
    idx,                \* loop index of the loop at bpc
    max_end_time,       \* local max_end_time
    audio_result,       \* the base track and what has been overlaid on it
    exports,            \* sequence of paths export() was called with
    \* ---- AudioBuilder: the mode, _build_sequential, decode errors ----
    sequential,         \* self.sequential
    gap_ms,             \* self.gap_ms
    undecodable,        \* inputs whose files_path from_mp3 cannot decode
    sorted_results,     \* _build_sequential: sorted_results, as input indices
    build_error,        \* the exception that left the build, or "none"
    \* ---- clean_chatterbox_audio / AudioCleaner ----
    config,             \* entry point, model path argument, RNNOISE_MODEL_PATH
    dpc,                \* position inside the denoise call stack
    call,               \* arguments and locals of the running call
    temps,              \* temp files of the running call that exist on disk
    created,            \* temp files the running call has created (mkstemp)
    dest,               \* what the destination path of the running call holds
    replaced,           \* number of os.replace() onto that destination
    calls,              \* external invocations of the running call, in order
    outcome,            \* how the running clean_chatterbox_audio call ended
    files,              \* clean_multiple: the matched files
    fidx,               \* clean_multiple: index of the file being processed
    metrics,            \* AudioCleaner.clean: local input_duration
    results,            \* DenoiseResults produced so far
    cleaner_exit,       \* how the AudioCleaner method ended
    \* ---- voice_over_chatterbox / ChatterboxVoiceCloner.generate_speech ----
    clips,              \* the segments handed to the pool, one task each
    tpc,                \* position of each task
    lock,               \* the task holding cloner._lock, or 0
    wav_files,          \* per file name: the task whose WAV is on disk, or 0
    mp3_files,          \* per file name: whose audio the MP3 on disk holds, or 0
    manifest,           \* the lines of files.txt, as file names
    manifest_exists,    \* files.txt exists
    speech_log          \* per task: what generate_speech has done, in order

bvars == <<voice_over_results, bpc, audio_segments, sorted_segments, idx,
           max_end_time, audio_result, exports>>
qvars == <<sequential, gap_ms, undecodable, sorted_results, build_error>>
dvars == <<config, dpc, call, temps, created, dest, replaced, calls, outcome,
           files, fidx, metrics, results, cleaner_exit>>
svars == <<clips, tpc, lock, wav_files, mp3_files, manifest, manifest_exists,
           speech_log>>
vars == <<bvars, qvars, dvars, svars>>

\* ------------------------------------------------------------------------
\* Bounds of the model
\* ------------------------------------------------------------------------
MaxSegs == 3
MaxFiles == 2
MaxClips == 2
Minutes == {0, 1}
Seconds == {1, 3, 59}
ClipLengths == {2000, 5000}
GapLengths == {0, 1000}
SequentialSeconds == {1, 59}
SequentialClipLengths == {1000, 1500, 2000}

\* ------------------------------------------------------------------------
\* Program constants
\* ------------------------------------------------------------------------
BufferMs == 50
DefaultGapMs == 1000
FadeMs == 30
DenoiseFadeMs == 30

Max(a, b) == IF a >= b THEN a ELSE b
Min(a, b) == IF a <= b THEN a ELSE b

\* ========================================================================
\* AudioBuilder._build_synced
\* ========================================================================

\* A pydub AudioSegment: which clip its samples come from (0: none), its
\* length in ms, and the length of the fade-out applied to its tail.
AudioSegment(src, len, fade) == [src |-> src, len |-> len, fade |-> fade]

\* AudioSegment.empty()
EmptyAudio == AudioSegment(0, 0, 0)

\* AudioSegment.from_mp3(files_path): the k-th input decodes to clip k.
FromMp3(k, r) == AudioSegment(k, r.len, 0)

\* audio_file[:n] for n > 0, then .fade_out(ms)
SliceTo(a, n) == AudioSegment(a.src, Min(a.len, n), a.fade)
FadeOut(a, ms) == AudioSegment(a.src, a.len, ms)

\* start_time = minutes * 60 * 1000 + seconds * 1000
StartTime(r) == r.minutes * 60 * 1000 + r.seconds * 1000

Segment(a, s, d) == [audio |-> a, start |-> s, duration |-> d]

\* list.sort(key=lambda x: x[1]): stable, ascending by start time.
RECURSIVE InsertByStart(_, _)
InsertByStart(s, x) ==
    IF s = <<>> THEN <<x>>
    ELSE IF s[Len(s)].start <= x.start THEN Append(s, x)
    ELSE Append(InsertByStart(SubSeq(s, 1, Len(s) - 1), x), s[Len(s)])

\* Variant: the list is left in the caller's order.
SortByStart_Skipped(s) == s

RECURSIVE SortByStart(_)
SortByStart(s) ==
    IF s = <<>> THEN <<>>
    ELSE InsertByStart(SortByStart(SubSeq(s, 1, Len(s) - 1)), s[Len(s)])

\* Variant: the overlap test also fires when the segments only touch.
Overlaps_Touching(seg, next_start) == seg.start + seg.duration >= next_start

\* The overlap test of the pass: end_time > next_start.
Overlaps(seg, next_start) == seg.start + seg.duration > next_start

\* Variant: the buffer is added instead of subtracted.
MaxDuration_PlusBuffer(seg, next_start) == next_start - seg.start + BufferMs

\* Variant: the buffer is forgotten.
MaxDuration_NoBuffer(seg, next_start) == next_start - seg.start

\* max_duration = next_start - start_time - 50
MaxDuration(seg, next_start) == next_start - seg.start - BufferMs

\* Variant: a fully overlapped segment is left as it is instead of skipped.
ResolveSegment_KeepsSkipped(seg, next_start) ==
    IF Overlaps(seg, next_start) /\ MaxDuration(seg, next_start) > 0
    THEN Segment(FadeOut(SliceTo(seg.audio, MaxDuration(seg, next_start)), FadeMs),
                 seg.start, MaxDuration(seg, next_start))
    ELSE seg

\* The replacement of segment i in one iteration of the overlap pass.
ResolveSegment(seg, next_start) ==
    IF Overlaps(seg, next_start)
    THEN IF MaxDuration(seg, next_start) > 0
         THEN Segment(FadeOut(SliceTo(seg.audio, MaxDuration(seg, next_start)), FadeMs),
                      seg.start, MaxDuration(seg, next_start))
         ELSE Segment(EmptyAudio, seg.start, 0)
    ELSE seg

\* The recalculation loop: max over the list of start_time + duration.
RECURSIVE MaxEndTime(_)
MaxEndTime(s) ==
    IF s = <<>> THEN 0
    ELSE Max(MaxEndTime(SubSeq(s, 1, Len(s) - 1)),
             s[Len(s)].start + s[Len(s)].duration)

\* Variant: max_end_time is not recomputed after the overlap pass.
TrackLength_Stale(before, after) == before

\* The length of the silent base track allocated at line 126.
TrackLength(before, after) == MaxEndTime(after)

\* audio_result.overlay(audio_file, position=start_time): the base keeps
\* its length; what lies beyond its end is cut off.
Overlay(base, a, pos) ==
    [len |-> base.len,
     mixed |-> base.mixed \cup
         {[src |-> a.src, pos |-> pos, len |-> a.len, fade |-> a.fade,
           cut |-> Max(0, pos + a.len - base.len)]}]

SyncedPath == "outputs/<language>/<language>_synced.mp3"

VoiceOverResult == [minutes : Minutes, seconds : Seconds, len : ClipLengths]

RECURSIVE SeqsUpTo(_, _)
SeqsUpTo(S, n) ==
    IF n = 0 THEN {<<>>}
    ELSE SeqsUpTo(S, n - 1) \cup
         {Append(s, x) : s \in {t \in SeqsUpTo(S, n - 1) : Len(t) = n - 1}, x \in S}

BuilderInit ==
    /\ voice_over_results \in SeqsUpTo(VoiceOverResult, MaxSegs)
    /\ bpc = "load"
    /\ audio_segments = <<>>
    /\ sorted_segments = <<>>
    /\ idx = 1
    /\ max_end_time = 0
    /\ audio_result = [len |-> 0, mixed |-> {}]
    /\ exports = <<>>
    /\ sequential = FALSE
    /\ gap_ms = DefaultGapMs
    /\ undecodable = {}
    /\ sorted_results = <<>>
    /\ build_error = "none"

\* Lines 84-97, one iteration: decode a clip and append its tuple.
LoadSegment ==
    /\ UNCHANGED <<qvars, dvars, svars>>
    /\ bpc = "load"
    /\ idx <= Len(voice_over_results)
    /\ idx \notin undecodable
    /\ LET r == voice_over_results[idx]
           audio_file == FromMp3(idx, r)
       IN /\ audio_segments' = Append(audio_segments,
                 Segment(audio_file, StartTime(r), audio_file.len))
          /\ max_end_time' = Max(max_end_time, StartTime(r) + audio_file.len)
    /\ idx' = idx + 1
    /\ UNCHANGED <<voice_over_results, bpc, sorted_segments, audio_result, exports>>

\* Line 100: the sort, once every clip is loaded.
SortSegments ==
    /\ UNCHANGED <<qvars, dvars, svars>>
    /\ bpc = "load"
    /\ idx > Len(voice_over_results)
    /\ audio_segments' = SortByStart(audio_segments)
    /\ sorted_segments' = SortByStart(audio_segments)
    /\ bpc' = "pass"
    /\ idx' = 1
    /\ UNCHANGED <<voice_over_results, max_end_time, audio_result, exports>>

\* Variant: an iteration also moves the next segment behind the end
\* of the one it handled, so that the next comparison reads its result.
ResolvePair_PushesNext ==
    /\ UNCHANGED <<qvars, dvars, svars>>
    /\ bpc = "pass"
    /\ idx <= Len(audio_segments) - 1
    /\ audio_segments' = [audio_segments EXCEPT
           ![idx] = ResolveSegment(audio_segments[idx], audio_segments[idx + 1].start),
           ![idx + 1] = Segment(@.audio,
                                Max(@.start, audio_segments[idx].start
                                               + audio_segments[idx].duration),
                                @.duration)]
    /\ idx' = idx + 1
    /\ UNCHANGED <<voice_over_results, bpc, sorted_segments, max_end_time,
                   audio_result, exports>>

\* Lines 103-118, one iteration of the overlap pass.
ResolvePair ==
    /\ UNCHANGED <<qvars, dvars, svars>>
    /\ bpc = "pass"
    /\ idx <= Len(audio_segments) - 1
    /\ audio_segments' = [audio_segments EXCEPT
           ![idx] = ResolveSegment(audio_segments[idx], audio_segments[idx + 1].start)]
    /\ idx' = idx + 1
    /\ UNCHANGED <<voice_over_results, bpc, sorted_segments, max_end_time,
                   audio_result, exports>>

\* Lines 120-126: recompute max_end_time and allocate the silent base.
AllocateTrack ==
    /\ UNCHANGED <<qvars, dvars, svars>>
    /\ bpc = "pass"
    /\ idx > Len(audio_segments) - 1
    /\ max_end_time' = TrackLength(max_end_time, audio_segments)
    /\ audio_result' = [len |-> TrackLength(max_end_time, audio_segments), mixed |-> {}]
    /\ bpc' = "overlay"
    /\ idx' = 1
    /\ UNCHANGED <<voice_over_results, audio_segments, sorted_segments, exports>>

\* Lines 129-131, one iteration: mix a segment in if its duration > 0.
OverlaySegment ==
    /\ UNCHANGED <<qvars, dvars, svars>>
    /\ bpc = "overlay"
    /\ idx <= Len(audio_segments)
    /\ audio_result' =
          IF audio_segments[idx].duration > 0
          THEN Overlay(audio_result, audio_segments[idx].audio, audio_segments[idx].start)
          ELSE audio_result
    /\ idx' = idx + 1
    /\ UNCHANGED <<voice_over_results, bpc, audio_segments, sorted_segments,
                   max_end_time, exports>>

\* Lines 133-134: export the mixed track.
ExportSynced ==
    /\ UNCHANGED <<qvars, dvars, svars>>
    /\ bpc = "overlay"
    /\ idx > Len(audio_segments)
    /\ exports' = Append(exports, SyncedPath)
    /\ bpc' = "done"
    /\ UNCHANGED <<voice_over_results, audio_segments, sorted_segments, idx,
                   max_end_time, audio_result>>

SyncedNext ==
    \/ LoadSegment
    \/ SortSegments
    \/ ResolvePair
    \/ AllocateTrack
    \/ OverlaySegment
    \/ ExportSynced

\* ========================================================================
\* AudioBuilder._build_sequential and the decode errors of both builders
\* ========================================================================

\* The sort key of line 49: x.minutes * 60 + x.seconds
TimeKey_SecondsOnly(r) == r.seconds

TimeKey(r) == r.minutes * 60 + r.seconds

\* sorted(voice_over_results, key=...): stable, ascending by the key.  The
\* result is kept as the sequence of positions in the caller's list.
RECURSIVE InsertByKey(_, _, _)
InsertByKey(s, k, vor) ==
    IF s = <<>> THEN <<k>>
    ELSE IF TimeKey(vor[s[Len(s)]]) <= TimeKey(vor[k]) THEN Append(s, k)
    ELSE Append(InsertByKey(SubSeq(s, 1, Len(s) - 1), k, vor), s[Len(s)])

RECURSIVE SortedResults(_, _)
SortedResults(vor, n) ==
    IF n = 0 THEN <<>>
    ELSE InsertByKey(SortedResults(vor, n - 1), n, vor)

\* AudioSegment.silent(duration=ms)
Silent(ms) == AudioSegment(0, ms, 0)

\* base + a (AudioSegment.__add__): a is placed at the end of base.
Concat(base, a) ==
    [len |-> base.len + a.len,
     mixed |-> base.mixed \cup
         {[src |-> a.src, pos |-> base.len, len |-> a.len, fade |-> a.fade,
           cut |-> 0]}]

\* Variant: the gap is appended after every chunk, the last one included.
GapAfter_Every(i, n) == i <= n

\* Line 68: i < len(sorted_results) - 1 for the 0-based i of enumerate,
\* that is idx < n for idx = i + 1.
GapAfter(i, n) == i < n

\* Variant: the sequential track is exported under the synced name.
SequentialPath_Synced == "outputs/<language>/<language>_synced.mp3"

\* Line 71: f"outputs/{self.language}/{self.language}_sequential.mp3"
SequentialPath == "outputs/<language>/<language>_sequential.mp3"

SequentialInput == [minutes : Minutes, seconds : SequentialSeconds,
                    len : SequentialClipLengths]

\* The state on entry to _build_sequential(voice_over_results).
SequentialInit ==
    /\ voice_over_results \in SeqsUpTo(SequentialInput, MaxSegs)
    /\ bpc = "sort"
    /\ audio_segments = <<>>
    /\ sorted_segments = <<>>
    /\ idx = 1
    /\ max_end_time = 0
    /\ audio_result = [len |-> 0, mixed |-> {}]
    /\ exports = <<>>
    /\ sequential = TRUE
    /\ gap_ms \in GapLengths
    /\ undecodable = {}
    /\ sorted_results = <<>>
    /\ build_error = "none"

\* Lines 47-56: sort the results, start from the empty track.
SortResults ==
    /\ UNCHANGED <<dvars, svars>>
    /\ bpc = "sort"
    /\ sorted_results' = SortedResults(voice_over_results, Len(voice_over_results))
    /\ audio_result' = [len |-> 0, mixed |-> {}]
    /\ idx' = 1
    /\ bpc' = "append"
    /\ UNCHANGED <<voice_over_results, audio_segments, sorted_segments,
                   max_end_time, exports, sequential, gap_ms, undecodable,
                   build_error>>

\* Lines 58-69, one iteration: decode the chunk, append it, then the gap.
AppendClip ==
    /\ UNCHANGED <<dvars, svars>>
    /\ bpc = "append"
    /\ idx <= Len(sorted_results)
    /\ sorted_results[idx] \notin undecodable
    /\ LET k == sorted_results[idx]
           audio_file == FromMp3(k, voice_over_results[k])
           appended == Concat(audio_result, audio_file)
       IN audio_result' = IF GapAfter(idx, Len(sorted_results))
                          THEN Concat(appended, Silent(gap_ms))
                          ELSE appended
    /\ idx' = idx + 1
    /\ UNCHANGED <<voice_over_results, bpc, audio_segments, sorted_segments,
                   max_end_time, exports, qvars>>

\* Lines 71-73: export the concatenated track.
ExportSequential ==
    /\ UNCHANGED <<dvars, svars>>
    /\ bpc = "append"
    /\ idx > Len(sorted_results)
    /\ exports' = Append(exports, SequentialPath)
    /\ bpc' = "done"
    /\ UNCHANGED <<voice_over_results, audio_segments, sorted_segments, idx,
                   max_end_time, audio_result, qvars>>

SequentialNext ==
    \/ SortResults
    \/ AppendClip
    \/ ExportSequential

\* Variant: a chunk that cannot be decoded is skipped and the build goes on.
OnDecodeError_Skip == "skip"

\* AudioSegment.from_mp3 raises on a file it cannot decode, and neither
\* builder has a handler around it (lines 59 and 86): the error leaves.
OnDecodeError == "raise"

\* What a decode error does to the running build, at loop index i.
DecodeError(i) ==
    IF OnDecodeError = "raise"
    THEN /\ build_error' = "DecodeError"
         /\ bpc' = "raised"
         /\ UNCHANGED idx
    ELSE /\ idx' = i + 1
         /\ UNCHANGED <<build_error, bpc>>

\* Line 86 in the load loop of _build_synced, on an undecodable file.
DecodeFailsSynced ==
    /\ UNCHANGED <<dvars, svars>>
    /\ bpc = "load"
    /\ idx <= Len(voice_over_results)
    /\ idx \in undecodable
    /\ DecodeError(idx)
    /\ UNCHANGED <<voice_over_results, audio_segments, sorted_segments,
                   max_end_time, audio_result, exports, sequential, gap_ms,
                   undecodable, sorted_results>>

\* Line 59 in the loop of _build_sequential, on an undecodable file.
DecodeFailsSequential ==
    /\ UNCHANGED <<dvars, svars>>
    /\ bpc = "append"
    /\ idx <= Len(sorted_results)
    /\ sorted_results[idx] \in undecodable
    /\ DecodeError(idx)
    /\ UNCHANGED <<voice_over_results, audio_segments, sorted_segments,
                   max_end_time, audio_result, exports, sequential, gap_ms,
                   undecodable, sorted_results>>

\* The state on entry to either builder, with at most one input whose
\* file cannot be decoded.
BuildersInit ==
    /\ voice_over_results \in SeqsUpTo(VoiceOverResult, MaxSegs)
    /\ sequential \in BOOLEAN
    /\ bpc = IF sequential THEN "sort" ELSE "load"
    /\ audio_segments = <<>>
    /\ sorted_segments = <<>>
    /\ idx = 1
    /\ max_end_time = 0
    /\ audio_result = [len |-> 0, mixed |-> {}]
    /\ exports = <<>>
    /\ gap_ms = DefaultGapMs
    /\ undecodable \in {{}} \cup {{k} : k \in 1 .. Len(voice_over_results)}
    /\ sorted_results = <<>>
    /\ build_error = "none"

BuildersNext ==
    \/ LoadSegment
    \/ DecodeFailsSynced
    \/ SortSegments
    \/ ResolvePair
    \/ AllocateTrack
    \/ OverlaySegment
    \/ ExportSynced
    \/ SortResults
    \/ AppendClip
    \/ DecodeFailsSequential
    \/ ExportSequential

\* ========================================================================
\* utils/denoise.py
\* ========================================================================

\* Optional[float] None
NoDuration == -1

ModelPaths == {"None", "model.rnnn", "missing.rnnn"}

\* os.path.isfile(rnnoise_model_path)
IsFile(p) == p = "model.rnnn"

\* What subprocess.run(['ffmpeg', ...], check=True) can do.
FfmpegOutcomes == {"ok", "CalledProcessError", "FileNotFoundError"}

\* What _get_duration can do: return a float, or raise from subprocess.run
\* (tool missing, non-zero exit), json.loads, info['format']['duration']
\* or float().
ProbeOutcomes == {"ok", "FileNotFoundError", "CalledProcessError",
                  "JSONDecodeError", "KeyError", "ValueError"}

\* Durations (ms) of the audio files: what a successful probe reports.
ProbeDurations == {10, 2000}

\* The silence trim never lengthens a clip.
TrimmedDurations(duration) == {t \in ProbeDurations : t <= duration}

\* A tool that reads a path which is not an existing file cannot succeed.
Readable(c, path) == path # "input" \/ c.input_is_file
FfmpegOn(c, path) == IF Readable(c, path) THEN FfmpegOutcomes ELSE FfmpegOutcomes \ {"ok"}
\* ffprobe on a missing file exits non-zero, whatever else is wrong.
ProbeOn(c, path) ==
    IF Readable(c, path) THEN ProbeOutcomes
    ELSE {"FileNotFoundError", "CalledProcessError"}

\* Variant: the first probe does not catch a missing tool.
ProbeCaughtFirst_NoToolMissing == {"CalledProcessError", "KeyError", "JSONDecodeError"}

\* Variant: the first probe does not catch a non-zero exit.
ProbeCaughtFirst_NoExitCode == {"FileNotFoundError", "KeyError", "JSONDecodeError"}

\* The exceptions the try blocks of _process_audio catch around a probe.
ProbeCaughtFirst == {"FileNotFoundError", "CalledProcessError", "KeyError", "JSONDecodeError"}
ProbeCaughtTrimmed == {"CalledProcessError", "KeyError", "JSONDecodeError"}

\* Variant: the fade start is not clamped at zero.
FadeStart_Unclamped(duration) == duration - DenoiseFadeMs

\* max(0, duration - 0.03), in ms
FadeStart(duration) == Max(0, duration - DenoiseFadeMs)

\* Variant: arnndn is added for every model path given, file or not.
BuildFilterChain_AnyPath(rnnoise_model_path, duration) ==
    [stages |-> (IF rnnoise_model_path # "None"
                 THEN <<"arnndn">> ELSE <<>>) \o <<"silenceremove", "afade">>,
     st |-> FadeStart(duration)]

\* _build_filter_chain(rnnoise_model_path, duration)
BuildFilterChain(rnnoise_model_path, duration) ==
    [stages |-> (IF rnnoise_model_path # "None" /\ IsFile(rnnoise_model_path)
                 THEN <<"arnndn">> ELSE <<>>) \o <<"silenceremove", "afade">>,
     st |-> FadeStart(duration)]

\* The fade-only chain of the precision pass.
FadeOnlyChain(duration) == [stages |-> <<"afade">>, st |-> FadeStart(duration)]

OutputPath(c) == IF c.in_place THEN "input" ELSE "output"

Ffmpeg(site, input, chain, output, exit) ==
    [site |-> site, tool |-> "ffmpeg", input |-> input, stages |-> chain.stages, st |-> chain.st,
     output |-> output, exit |-> exit]
NoChain == [stages |-> <<>>, st |-> 0]
\* The log keeps how a probe failed only where the code tells the failures
\* apart; the probes wrapped in "except Exception" are logged as ok/failed.
ProbeExit(site, exit) ==
    IF site \in {"metrics_in", "outprobe", "metrics_out"} /\ exit # "ok"
    THEN "failed" ELSE exit
Ffprobe(site, input, exit) ==
    [site |-> site, tool |-> "ffprobe", input |-> input, stages |-> <<>>, st |-> 0,
     output |-> "-", exit |-> ProbeExit(site, exit)]

\* The arguments of one call and its locals before the first statement.
NewCall(path, is_wav, in_place, input_is_file, out_dir_exists, duration) ==
    [path |-> path, is_wav |-> is_wav, in_place |-> in_place,
     input_is_file |-> input_is_file, out_dir_exists |-> out_dir_exists,
     duration |-> duration, trimmed |-> NoDuration,
     rnnoise_model_path |-> "None", use_rnnoise |-> FALSE,
     working_input |-> "input",
     input_duration |-> NoDuration, trimmed_duration |-> NoDuration]

NoCall == NewCall(0, TRUE, TRUE, TRUE, TRUE, NoDuration)

\* AudioCleaner.__init__: rnnoise_model_path or os.environ.get(...)
CleanerModelPath == IF config.arg_model # "None" THEN config.arg_model ELSE config.env_model

\* DenoiseResult(...)
DenoiseResult(c, success, input_duration, output_duration, duration_saved, error) ==
    [success |-> success, input_path |-> c.path,
     output_path |-> IF c.in_place THEN c.path ELSE 0,
     input_duration |-> input_duration, output_duration |-> output_duration,
     duration_saved |-> duration_saved, error |-> error]

\* sorted(glob.glob(pattern)): ascending order of the matched paths.
RECURSIVE Sorted(_)
Sorted(S) ==
    IF S = {} THEN <<>>
    ELSE LET m == CHOOSE x \in S : \A y \in S : x <= y
         IN <<m>> \o Sorted(S \ {m})

SeqToSet(s) == {s[i] : i \in 1 .. Len(s)}

\* All orders in which glob may list a set of paths.
Orders(S) == {s \in [1 .. Cardinality(S) -> S] : SeqToSet(s) = S}

DenoiseIdle ==
    /\ config = [entry |-> "none", arg_model |-> "None", env_model |-> "None"]
    /\ dpc = "idle"
    /\ call = NoCall
    /\ temps = {}
    /\ created = {}
    /\ dest = "orig"
    /\ replaced = 0
    /\ calls = <<>>
    /\ outcome = "none"
    /\ files = <<>>
    /\ fidx = 1
    /\ metrics = NoDuration
    /\ results = <<>>
    /\ cleaner_exit = "none"

DenoiseInit ==
    /\ config \in [entry : {"direct", "clean", "batch"},
                   arg_model : ModelPaths, env_model : ModelPaths]
    /\ IF config.entry = "batch"
       THEN /\ call = NoCall
            /\ dpc = "glob"
            /\ \E S \in SUBSET (1 .. MaxFiles) : files \in Orders(S)
       ELSE /\ \E w, p, f, d \in BOOLEAN, n \in ProbeDurations :
                  \* an existing input file lies in an existing directory
                  /\ (p /\ f) => d
                  /\ call = NewCall(1, w, p, f, d, n)
            /\ dpc = IF config.entry = "direct" THEN "entry" ELSE "validate"
            /\ files = <<>>
    /\ temps = {}
    /\ created = {}
    /\ dest = "orig"
    /\ replaced = 0
    /\ calls = <<>>
    /\ outcome = "none"
    /\ fidx = 1
    /\ metrics = NoDuration
    /\ results = <<>>
    /\ cleaner_exit = "none"

\* A DenoiseResult leaves AudioCleaner.clean: clean_multiple appends it
\* and goes on with the next file; a lone clean returns it.
Deliver(r) ==
    /\ results' = Append(results, r)
    /\ IF config.entry = "batch"
       THEN /\ fidx' = fidx + 1
            /\ dpc' = "loop"
            /\ UNCHANGED cleaner_exit
       ELSE /\ dpc' = "exit"
            /\ cleaner_exit' = "returned"
            /\ UNCHANGED fidx

\* Variant: a processing failure carries a message.
ProcessingError_Message == "msg"

\* Lines 384-390 with line 96: the result of a processing failure is
\* built without the error argument, which defaults to None.
ProcessingError == "None"

\* clean_chatterbox_audio ends with val ("true", "false" or "raised"),
\* leaving the temp files t behind; what its caller does next.
\* Lines 214-218 (finally) and, in AudioCleaner.clean, lines 373-390.
Leave(val, t) ==
    /\ outcome' = val
    /\ temps' = t
    /\ IF config.entry = "direct"
       THEN /\ dpc' = "exit"
            /\ UNCHANGED <<results, fidx, cleaner_exit>>
       ELSE IF val = "true"
       THEN /\ dpc' = "metrics_out"
            /\ UNCHANGED <<results, fidx, cleaner_exit>>
       ELSE IF val = "false"
       THEN Deliver(DenoiseResult(call, FALSE, metrics, NoDuration, NoDuration,
                                  ProcessingError))
       ELSE /\ dpc' = "exit"
            /\ cleaner_exit' = "raised"
            /\ UNCHANGED <<results, fidx>>

\* Leaving through the try/finally of clean_chatterbox_audio, which
\* removes the converted working copy.
LeaveFinally(val, t) == Leave(val, t \ {"converted"})

\* Variant: the environment variable is not consulted.
ResolveModelPath_IgnoresEnv(given, env) == given

\* Lines 200-201: if rnnoise_model_path is None, take RNNOISE_MODEL_PATH.
ResolveModelPath(given, env) == IF given = "None" THEN env ELSE given

\* Lines 200-207: resolve the model path, pick the working input.
Enter ==
    /\ UNCHANGED <<bvars, qvars, svars>>
    /\ dpc = "entry"
    /\ LET given == IF config.entry = "direct" THEN config.arg_model ELSE CleanerModelPath
       IN call' = [call EXCEPT !.rnnoise_model_path =
                       ResolveModelPath(given, config.env_model)]
    /\ dpc' = IF call.is_wav THEN "probe" ELSE "convert"
    /\ UNCHANGED <<config, temps, created, dest, replaced, calls, outcome,
                   files, fidx, metrics, results, cleaner_exit>>

\* Lines 208-212 with _convert_to_wav (142-161).
Convert ==
    /\ UNCHANGED <<bvars, qvars, svars>>
    /\ dpc = "convert"
    /\ \E o \in FfmpegOn(call, "input") :
          /\ calls' = Append(calls, Ffmpeg("convert", "input", NoChain, "converted", o))
          /\ created' = created \cup {"converted"}
          /\ IF o = "ok"
             THEN /\ call' = [call EXCEPT !.working_input = "converted"]
                  /\ temps' = temps \cup {"converted"}
                  /\ dpc' = "probe"
                  /\ UNCHANGED <<outcome, results, fidx, cleaner_exit>>
             ELSE /\ Leave("false", temps)
                  /\ UNCHANGED call
    /\ UNCHANGED <<config, dest, replaced, files, metrics>>

\* Lines 224-238: the duration probe, the chain and the first temp file.
ProbeInput ==
    /\ UNCHANGED <<bvars, qvars, svars>>
    /\ dpc = "probe"
    /\ \E o \in ProbeOn(call, call.working_input) :
          /\ calls' = Append(calls, Ffprobe("probe", call.working_input, o))
          /\ IF o = "ok"
             THEN /\ call' = [call EXCEPT
                       !.input_duration = call.duration,
                       !.use_rnnoise = call.rnnoise_model_path # "None"
                                       /\ IsFile(call.rnnoise_model_path)]
                  /\ temps' = temps \cup {"tmp1"}
                  /\ created' = created \cup {"tmp1"}
                  /\ dpc' = "filter"
                  /\ UNCHANGED <<outcome, results, fidx, cleaner_exit>>
             ELSE /\ LeaveFinally(IF o \in ProbeCaughtFirst THEN "false" ELSE "raised", temps)
                  /\ UNCHANGED <<call, created>>
    /\ UNCHANGED <<config, dest, replaced, files, metrics>>

\* Variant: a failed first pass is retried whatever its chain was.
Retries_Always(c, o) == o = "CalledProcessError"

\* Lines 251-252: except CalledProcessError, if use_rnnoise: retry.
Retries(c, o) == o = "CalledProcessError" /\ c.use_rnnoise

\* Lines 240-254 and 267-270: the first filter pass.
FirstPass ==
    /\ UNCHANGED <<bvars, qvars, svars>>
    /\ dpc = "filter"
    /\ \E o \in FfmpegOn(call, call.working_input), t \in TrimmedDurations(call.duration) :
          /\ calls' = Append(calls,
                 Ffmpeg("filter", call.working_input,
                        BuildFilterChain(call.rnnoise_model_path, call.input_duration),
                        "tmp1", o))
          /\ IF o = "ok"
             THEN /\ dpc' = "reprobe"
                  /\ call' = [call EXCEPT !.trimmed = t]
                  /\ UNCHANGED <<temps, outcome, results, fidx, cleaner_exit>>
             ELSE IF Retries(call, o)
             THEN /\ dpc' = "fallback"
                  /\ UNCHANGED <<call, temps, outcome, results, fidx, cleaner_exit>>
             ELSE /\ LeaveFinally("false", temps \ {"tmp1"})
                  /\ UNCHANGED call
    /\ UNCHANGED <<config, created, dest, replaced, files, metrics>>

\* Variant: a failed fallback pass is tried again.
FallbackRetries_Again(c, o) == o = "CalledProcessError"

\* Lines 263-266: the fallback pass has its own handler, which removes
\* the temp file and returns False; nothing is tried after it.
FallbackRetries(c, o) == FALSE

\* Lines 255-266: the retry without the arnndn stage.
FallbackPass ==
    /\ UNCHANGED <<bvars, qvars, svars>>
    /\ dpc = "fallback"
    /\ \E o \in FfmpegOn(call, call.working_input), t \in TrimmedDurations(call.duration) :
          /\ calls' = Append(calls,
                 Ffmpeg("fallback", call.working_input,
                        BuildFilterChain("None", call.input_duration), "tmp1", o))
          /\ IF o = "ok"
             THEN /\ dpc' = "reprobe"
                  /\ call' = [call EXCEPT !.trimmed = t]
                  /\ UNCHANGED <<temps, outcome, results, fidx, cleaner_exit>>
             ELSE IF FallbackRetries(call, o)
             THEN /\ dpc' = "fallback"
                  /\ UNCHANGED <<call, temps, outcome, results, fidx, cleaner_exit>>
             ELSE /\ LeaveFinally("false", temps \ {"tmp1"})
                  /\ UNCHANGED call
    /\ UNCHANGED <<config, created, dest, replaced, files, metrics>>

\* os.replace(src, output_path) succeeds when the directory of the
\* destination exists and raises FileNotFoundError otherwise.
ReplaceWorks == call.out_dir_exists

\* Variant: the call reports failure after it has published the file.
AfterPublish_ReportsFailure == "false"

\* Line 279: what the call returns once the un-probed file is published.
AfterPublish == "true"

\* Lines 272-283: probe the trimmed file; publish it as it is when the
\* probe fails with one of the caught exceptions.
ProbeTrimmed ==
    /\ UNCHANGED <<bvars, qvars, svars>>
    /\ dpc = "reprobe"
    /\ \E o \in ProbeOutcomes :
          /\ calls' = Append(calls, Ffprobe("reprobe", "tmp1", o))
          /\ IF o = "ok"
             THEN /\ call' = [call EXCEPT !.trimmed_duration = call.trimmed]
                  /\ temps' = temps \cup {"tmp2"}
                  /\ created' = created \cup {"tmp2"}
                  /\ dpc' = "fade"
                  /\ UNCHANGED <<dest, replaced, outcome, results, fidx, cleaner_exit>>
             ELSE IF o \in ProbeCaughtTrimmed /\ ReplaceWorks
             THEN /\ dest' = "tmp1"
                  /\ replaced' = replaced + 1
                  /\ LeaveFinally(AfterPublish, temps \ {"tmp1"})
                  /\ UNCHANGED <<call, created>>
             ELSE /\ LeaveFinally("raised", temps)
                  /\ UNCHANGED <<call, created, dest, replaced>>
    /\ UNCHANGED <<config, files, metrics>>

\* Variant: the fade-only pass reads the working copy again.
FadeInput_WorkingCopy(c) == c.working_input

\* Line 287: the fade-only pass reads tmp_path, the file the first or
\* fallback pass wrote.
FadeInput(c) == "tmp1"

\* Lines 285-297: the fade-only pass and the publication of its result,
\* or of the trimmed file when it fails.
FadePass ==
    /\ UNCHANGED <<bvars, qvars, svars>>
    /\ dpc = "fade"
    /\ \E o \in FfmpegOutcomes :
          /\ calls' = Append(calls,
                 Ffmpeg("fade", FadeInput(call), FadeOnlyChain(call.trimmed_duration),
                        "tmp2", o))
          /\ IF ~ReplaceWorks
             THEN /\ LeaveFinally("raised", temps)
                  /\ UNCHANGED <<dest, replaced>>
             ELSE /\ dest' = IF o = "ok" THEN "tmp2" ELSE "tmp1"
                  /\ replaced' = replaced + 1
                  /\ temps' = temps \ {"tmp1", "tmp2"}
                  /\ dpc' = "outprobe"
                  /\ UNCHANGED <<outcome, results, fidx, cleaner_exit>>
    /\ UNCHANGED <<config, call, created, files, metrics>>

\* Lines 299-307: the logging probe of the published file; return True.
ProbeOutput ==
    /\ UNCHANGED <<bvars, qvars, svars>>
    /\ dpc = "outprobe"
    /\ \E o \in ProbeOutcomes :
          calls' = Append(calls, Ffprobe("outprobe", OutputPath(call), o))
    /\ LeaveFinally("true", temps)
    /\ UNCHANGED <<config, call, created, dest, replaced, files, metrics>>

\* Variant: only the input path is validated.
PathsValid_InputOnly(c) == c.input_is_file

\* AudioInputPath (os.path.isfile) and AudioOutputPath (the parent of the
\* path is empty or an existing directory) both accept.
PathsValid(c) == c.input_is_file /\ c.out_dir_exists

\* AudioCleaner.clean, lines 350-359: AudioInputPath / AudioOutputPath.
Validate ==
    /\ UNCHANGED <<bvars, qvars, svars>>
    /\ dpc = "validate"
    /\ IF PathsValid(call)
       THEN /\ dpc' = "metrics_in"
            /\ UNCHANGED <<results, fidx, cleaner_exit>>
       ELSE Deliver(DenoiseResult(call, FALSE, NoDuration, NoDuration, NoDuration, "msg"))
    /\ UNCHANGED <<config, call, temps, created, dest, replaced, calls, outcome,
                   files, metrics>>

\* AudioCleaner.clean, lines 361-365: best-effort probe of the input.
MetricsIn ==
    /\ UNCHANGED <<bvars, qvars, svars>>
    /\ dpc = "metrics_in"
    /\ \E o \in ProbeOutcomes :
          /\ calls' = Append(calls, Ffprobe("metrics_in", "input", o))
          /\ metrics' = IF o = "ok" THEN call.duration ELSE NoDuration
    /\ dpc' = "entry"
    /\ UNCHANGED <<config, call, temps, created, dest, replaced, outcome,
                   files, fidx, results, cleaner_exit>>

\* Variant: the difference is taken whether or not the probes succeeded.
DurationSaved_Unchecked(input_duration, output_duration) ==
    input_duration - output_duration

\* Lines 376-380: duration_saved is assigned after the output probe has
\* returned, and only if input_duration is not None.
DurationSaved(input_duration, output_duration) ==
    IF input_duration # NoDuration /\ output_duration # NoDuration
    THEN input_duration - output_duration
    ELSE NoDuration

\* AudioCleaner.clean, lines 373-390 after a successful cleaning.
MetricsOut ==
    /\ UNCHANGED <<bvars, qvars, svars>>
    /\ dpc = "metrics_out"
    /\ \E o \in ProbeOutcomes :
          /\ calls' = Append(calls, Ffprobe("metrics_out", OutputPath(call), o))
          /\ LET output_duration == IF o = "ok" THEN call.trimmed ELSE NoDuration
             IN Deliver(DenoiseResult(call, TRUE, metrics, output_duration,
                                      DurationSaved(metrics, output_duration),
                                      "None"))
    /\ UNCHANGED <<config, call, temps, created, dest, replaced, outcome,
                   files, metrics>>

\* clean_multiple, lines 402-408: expand and sort the pattern.
Glob ==
    /\ UNCHANGED <<bvars, qvars, svars>>
    /\ dpc = "glob"
    /\ files' = Sorted(SeqToSet(files))
    /\ IF files = <<>>
       THEN /\ dpc' = "exit"
            /\ cleaner_exit' = "returned"
       ELSE /\ dpc' = "loop"
            /\ UNCHANGED cleaner_exit
    /\ UNCHANGED <<config, call, temps, created, dest, replaced, calls, outcome,
                   fidx, metrics, results>>

\* clean_multiple, lines 410-412: self.clean(file_path, file_path) on the
\* next file; what the path is (a WAV, a file at all) shows only now.
NextFile ==
    /\ UNCHANGED <<bvars, qvars, svars>>
    /\ dpc = "loop"
    /\ fidx <= Len(files)
    /\ \E w, f \in BOOLEAN, n \in ProbeDurations :
          call' = NewCall(files[fidx], w, TRUE, f, TRUE, n)
    /\ temps' = {}
    /\ created' = {}
    /\ dest' = "orig"
    /\ replaced' = 0
    /\ calls' = <<>>
    /\ outcome' = "none"
    /\ metrics' = NoDuration
    /\ dpc' = "validate"
    /\ UNCHANGED <<config, files, fidx, results, cleaner_exit>>

\* clean_multiple, lines 415-423: the summary and the return.
Summarize ==
    /\ UNCHANGED <<bvars, qvars, svars>>
    /\ dpc = "loop"
    /\ fidx > Len(files)
    /\ dpc' = "exit"
    /\ cleaner_exit' = "returned"
    /\ UNCHANGED <<config, call, temps, created, dest, replaced, calls, outcome,
                   files, fidx, metrics, results>>

DenoiseSpecNext ==
    \/ Enter
    \/ Convert
    \/ ProbeInput
    \/ FirstPass
    \/ FallbackPass
    \/ ProbeTrimmed
    \/ FadePass
    \/ ProbeOutput
    \/ Validate
    \/ MetricsIn
    \/ MetricsOut
    \/ Glob
    \/ NextFile
    \/ Summarize

\* ========================================================================
\* utils/chatterbox_tts.py: voice_over_chatterbox and generate_speech, run
\* by the workers of a thread pool that share one cloner
\* ========================================================================

\* The timestamps of the segments handed to the pool.
SpeechClip == [minutes : {0}, seconds : {1, 3}]

\* Lines 184-186: str(minutes).zfill(2) + str(seconds).zfill(2), read as
\* a number; the .mp3 path and, with_suffix('.wav'), the WAV path share it.
FileName(c) == c.minutes * 100 + c.seconds

SpeechNames == {FileName(c) : c \in SpeechClip}

\* Content of an MP3 that was on disk before the run.
Earlier == -1

\* What subprocess.run(['ffmpeg', '-i', wav, ...], check=True) can do.
ConvertOutcomes(name) ==
    IF wav_files[name] = 0 THEN {"CalledProcessError", "FileNotFoundError"}
    ELSE {"ok", "CalledProcessError", "FileNotFoundError"}

SpeechIdle ==
    /\ clips = <<>>
    /\ tpc = <<>>
    /\ lock = 0
    /\ wav_files = [n \in SpeechNames |-> 0]
    /\ mp3_files = [n \in SpeechNames |-> 0]
    /\ manifest = <<>>
    /\ manifest_exists = FALSE
    /\ speech_log = <<>>

\* The pool has been given one voice_over_chatterbox task per segment.
SpeechInit ==
    /\ clips \in SeqsUpTo(SpeechClip, MaxClips)
    /\ tpc = [t \in 1 .. Len(clips) |-> "start"]
    /\ lock = 0
    /\ wav_files = [n \in SpeechNames |-> 0]
    /\ mp3_files \in [SpeechNames -> {0, Earlier}]
    /\ manifest = <<>>
    \* translator.py creates an empty files.txt, run_pipeline removes it
    /\ manifest_exists \in BOOLEAN
    /\ speech_log = [t \in 1 .. Len(clips) |-> <<>>]

Tasks == 1 .. Len(clips)

\* voice_over_chatterbox, lines 180-191: skip the generation when the MP3
\* exists, else call generate_speech (lines 124-125).
CheckExists(t) ==
    /\ tpc[t] = "start"
    /\ tpc' = [tpc EXCEPT ![t] = IF mp3_files[FileName(clips[t])] # 0
                                 THEN "append" ELSE "lock"]
    /\ UNCHANGED <<clips, lock, wav_files, mp3_files, manifest, manifest_exists,
                   speech_log>>

\* generate_speech, line 128: with self._lock
Acquire(t) ==
    /\ tpc[t] = "lock"
    /\ lock = 0
    /\ lock' = t
    /\ tpc' = [tpc EXCEPT ![t] = "generate"]
    /\ UNCHANGED <<clips, wav_files, mp3_files, manifest, manifest_exists,
                   speech_log>>

\* generate_speech, lines 129-145: inference and ta.save of the WAV under
\* the lock, then the lock is released.
Generate(t) ==
    /\ tpc[t] = "generate"
    /\ lock = t
    /\ wav_files' = [wav_files EXCEPT ![FileName(clips[t])] = t]
    /\ speech_log' = [speech_log EXCEPT ![t] = Append(@, "ta.save")]
    /\ lock' = 0
    /\ tpc' = [tpc EXCEPT ![t] = "convert"]
    /\ UNCHANGED <<clips, mp3_files, manifest, manifest_exists>>

\* generate_speech, lines 148-154: the conversion of the WAV to MP3 (the
\* path voice_over_chatterbox passes always ends in .mp3).
ConvertMp3(t) ==
    /\ tpc[t] = "convert"
    /\ speech_log' = [speech_log EXCEPT ![t] = Append(@, "ffmpeg")]
    /\ \E o \in ConvertOutcomes(FileName(clips[t])) :
          IF o = "ok"
          THEN /\ mp3_files' = [mp3_files EXCEPT
                     ![FileName(clips[t])] = wav_files[FileName(clips[t])]]
               /\ tpc' = [tpc EXCEPT ![t] = "unlink"]
          ELSE /\ tpc' = [tpc EXCEPT ![t] = "raised"]
               /\ UNCHANGED mp3_files
    /\ UNCHANGED <<clips, lock, wav_files, manifest, manifest_exists>>

\* generate_speech, lines 155-157: wav_output.unlink() and return.
Unlink(t) ==
    /\ tpc[t] = "unlink"
    /\ IF wav_files[FileName(clips[t])] = 0
       THEN /\ tpc' = [tpc EXCEPT ![t] = "raised"]
            /\ UNCHANGED <<wav_files, speech_log>>
       ELSE /\ wav_files' = [wav_files EXCEPT ![FileName(clips[t])] = 0]
            /\ speech_log' = [speech_log EXCEPT ![t] = Append(@, "unlink")]
            /\ tpc' = [tpc EXCEPT ![t] = "append"]
    /\ UNCHANGED <<clips, lock, mp3_files, manifest, manifest_exists>>

\* voice_over_chatterbox, lines 193-199: append to files.txt, return.
AppendManifest(t) ==
    /\ tpc[t] = "append"
    /\ manifest' = Append(manifest, FileName(clips[t]))
    /\ manifest_exists' = TRUE
    /\ tpc' = [tpc EXCEPT ![t] = "done"]
    /\ UNCHANGED <<clips, lock, wav_files, mp3_files, speech_log>>

StepCheckExists == UNCHANGED <<bvars, qvars, dvars>> /\ \E t \in Tasks : CheckExists(t)
StepAcquire == UNCHANGED <<bvars, qvars, dvars>> /\ \E t \in Tasks : Acquire(t)
StepGenerate == UNCHANGED <<bvars, qvars, dvars>> /\ \E t \in Tasks : Generate(t)
StepConvertMp3 == UNCHANGED <<bvars, qvars, dvars>> /\ \E t \in Tasks : ConvertMp3(t)
StepUnlink == UNCHANGED <<bvars, qvars, dvars>> /\ \E t \in Tasks : Unlink(t)
StepAppendManifest == UNCHANGED <<bvars, qvars, dvars>> /\ \E t \in Tasks : AppendManifest(t)

SpeechNext ==
    \/ StepCheckExists
    \/ StepAcquire
    \/ StepGenerate
    \/ StepConvertMp3
    \/ StepUnlink
    \/ StepAppendManifest

\* ========================================================================
\* AudioBuilder.build: the manifest, then one of the two builders
\* ========================================================================

\* lines.sort(key=...) of merge_files_respecting_time: stable, ascending
\* by the path up to ".mp3", which for one directory is the file name.
RECURSIVE InsertLine(_, _)
InsertLine(s, x) ==
    IF s = <<>> THEN <<x>>
    ELSE IF s[Len(s)] <= x THEN Append(s, x)
    ELSE Append(InsertLine(SubSeq(s, 1, Len(s) - 1), x), s[Len(s)])

RECURSIVE SortLines(_)
SortLines(s) ==
    IF s = <<>> THEN <<>>
    ELSE InsertLine(SortLines(SubSeq(s, 1, Len(s) - 1)), s[Len(s)])

\* The segments given to build().
BuildInput == [minutes : {0}, seconds : {1, 3}, len : ClipLengths]

\* The state on entry to build(voice_over_results): every result has its
\* line in files.txt, written in the order the clips were finished; with
\* no result the file may not exist.
BuildInit ==
    /\ voice_over_results \in SeqsUpTo(BuildInput, MaxSegs)
    /\ sequential \in BOOLEAN
    /\ bpc = "build"
    /\ audio_segments = <<>>
    /\ sorted_segments = <<>>
    /\ idx = 1
    /\ max_end_time = 0
    /\ audio_result = [len |-> 0, mixed |-> {}]
    /\ exports = <<>>
    /\ gap_ms = DefaultGapMs
    /\ undecodable = {}
    /\ sorted_results = <<>>
    /\ build_error = "none"
    /\ \E order \in Orders(1 .. Len(voice_over_results)) :
           manifest = [i \in 1 .. Len(voice_over_results) |->
                           FileName(voice_over_results[order[i]])]
    /\ manifest_exists \in BOOLEAN
    /\ voice_over_results # <<>> => manifest_exists
    /\ clips = <<>>
    /\ tpc = <<>>
    /\ lock = 0
    /\ wav_files = [n \in SpeechNames |-> 0]
    /\ mp3_files = [n \in SpeechNames |-> 0]
    /\ speech_log = <<>>

\* Lines 34-40 with merge_files_respecting_time (19-32): rewrite files.txt
\* sorted, then enter the builder of the mode; open() raises when the
\* file does not exist.
Build ==
    /\ UNCHANGED <<dvars, clips, tpc, lock, wav_files, mp3_files, speech_log,
                   manifest_exists>>
    /\ bpc = "build"
    /\ IF manifest_exists
       THEN /\ manifest' = SortLines(manifest)
            /\ bpc' = IF sequential THEN "sort" ELSE "load"
            /\ UNCHANGED build_error
       ELSE /\ build_error' = "FileNotFoundError"
            /\ bpc' = "raised"
            /\ UNCHANGED manifest
    /\ UNCHANGED <<voice_over_results, audio_segments, sorted_segments, idx,
                   max_end_time, audio_result, exports, sequential, gap_ms,
                   undecodable, sorted_results>>

BuildNext ==
    \/ Build
    \/ LoadSegment
    \/ SortSegments
    \/ ResolvePair
    \/ AllocateTrack
    \/ OverlaySegment
    \/ ExportSynced
    \/ SortResults
    \/ AppendClip
    \/ ExportSequential

BuilderIdle ==
    /\ voice_over_results = <<>>
    /\ bpc = "idle"
    /\ audio_segments = <<>>
    /\ sorted_segments = <<>>
    /\ idx = 1
    /\ max_end_time = 0
    /\ audio_result = [len |-> 0, mixed |-> {}]
    /\ exports = <<>>
    /\ sequential = FALSE
    /\ gap_ms = DefaultGapMs
    /\ undecodable = {}
    /\ sorted_results = <<>>
    /\ build_error = "none"

DenoiseSpecInit == DenoiseInit /\ BuilderIdle /\ SpeechIdle
SpecDenoise == DenoiseSpecInit /\ [][DenoiseSpecNext]_vars

\* One call of clean_chatterbox_audio or of AudioCleaner.clean.  Every
\* step of a call is taken as soon as the one before it has returned.
CallNext ==
    \/ Enter
    \/ Convert
    \/ ProbeInput
    \/ FirstPass
    \/ FallbackPass
    \/ ProbeTrimmed
    \/ FadePass
    \/ ProbeOutput
    \/ Validate
    \/ MetricsIn
    \/ MetricsOut

CallSpecInit == DenoiseSpecInit /\ config.entry \in {"direct", "clean"}
SpecCall == CallSpecInit /\ [][CallNext]_vars /\ WF_vars(CallNext)

SyncedInit == BuilderInit /\ DenoiseIdle /\ SpeechIdle
SpecSynced == SyncedInit /\ [][SyncedNext]_vars

SequentialSpecInit == SequentialInit /\ DenoiseIdle /\ SpeechIdle
SpecSequential == SequentialSpecInit /\ [][SequentialNext]_vars

BuildersSpecInit == BuildersInit /\ DenoiseIdle /\ SpeechIdle

BuildSpecInit == BuildInit /\ DenoiseIdle
SpecBuild == BuildSpecInit /\ [][BuildNext]_vars

SpeechSpecInit == SpeechInit /\ BuilderIdle /\ DenoiseIdle
SpecSpeech == SpeechSpecInit /\ [][SpeechNext]_vars
SpecBuilders == BuildersSpecInit /\ [][BuildersNext]_vars

\* ========================================================================
\* Properties of the synced build (checked under SpecSynced)
\* ========================================================================
PassDone ==
    \/ bpc \in {"overlay", "done"}
    \/ bpc = "pass" /\ idx > Len(audio_segments) - 1

\* Pair (i, i+1) has been handled by the overlap pass.
Resolved(i) ==
    \/ bpc \in {"overlay", "done"}
    \/ bpc = "pass" /\ idx > i

Pairs == 1 .. (Len(sorted_segments) - 1)

\* In the freshly sorted list, segment i runs into its successor.
OverlapsNext(i) ==
    sorted_segments[i].start + sorted_segments[i].duration > sorted_segments[i + 1].start

Allowed(i) == sorted_segments[i + 1].start - sorted_segments[i].start - 50

\* C1: once the overlap pass is over, every adjacent pair of the working
\* list (sorted by start time) satisfies start[i] + duration[i] <=
\* start[i+1]: no residual overlap remains after the single pass.
C1_NoResidualOverlap ==
    PassDone =>
        \A i \in 1 .. (Len(audio_segments) - 1) :
            /\ audio_segments[i].start <= audio_segments[i + 1].start
            /\ audio_segments[i].start + audio_segments[i].duration
                   <= audio_segments[i + 1].start

\* C1 witness: the pass has ended on three clips of which both adjacent
\* pairs overlapped before it.
C1_Witness ==
    /\ PassDone
    /\ Len(sorted_segments) = 3
    /\ OverlapsNext(1)
    /\ OverlapsNext(2)

\* C7: an overlapping segment with allowed = start[i+1] - start[i] - 50 > 0
\* is replaced by a truncated copy of the same clip whose duration is
\* exactly allowed, start unchanged, with a 30 ms fade-out; A(1000, 5000),
\* B(3000, 2000) give A the duration 1950.
C7_TruncatedToAllowed ==
    /\ \A i \in Pairs :
           (Resolved(i) /\ OverlapsNext(i) /\ Allowed(i) > 0) =>
               /\ audio_segments[i].duration = Allowed(i)
               /\ audio_segments[i].start = sorted_segments[i].start
               /\ audio_segments[i].audio.src = sorted_segments[i].audio.src
               /\ audio_segments[i].audio.len = Allowed(i)
               /\ audio_segments[i].audio.fade = 30
    /\ (/\ Len(sorted_segments) = 2
        /\ Resolved(1)
        /\ sorted_segments[1].start = 1000 /\ sorted_segments[1].duration = 5000
        /\ sorted_segments[2].start = 3000 /\ sorted_segments[2].duration = 2000)
           => audio_segments[1].duration = 1950

\* C7 witness: the example A(1000, 5000), B(3000, 2000) after the pass.
C7_Witness ==
    /\ bpc = "done"
    /\ Len(sorted_segments) = 2
    /\ sorted_segments[1].start = 1000 /\ sorted_segments[1].duration = 5000
    /\ sorted_segments[2].start = 3000 /\ sorted_segments[2].duration = 2000
    /\ audio_segments[1].duration = 1950

\* C8: an overlapping segment with start[i+1] - start[i] - 50 <= 0 (for
\* equal starts the earlier one in input order) becomes a zero-duration
\* empty placeholder that stays in the list (length and positions
\* unchanged), is never mixed into the track, and the build ends with its
\* export.
C8_SkippedPlaceholder ==
    /\ bpc # "load" =>
           /\ Len(audio_segments) = Len(sorted_segments)
           /\ Len(audio_segments) = Len(voice_over_results)
           /\ \A i \in 1 .. Len(sorted_segments) :
                  audio_segments[i].start = sorted_segments[i].start
           /\ \A i \in Pairs :
                  sorted_segments[i].start = sorted_segments[i + 1].start =>
                      sorted_segments[i].audio.src < sorted_segments[i + 1].audio.src
    /\ \A i \in Pairs :
           (Resolved(i) /\ OverlapsNext(i) /\ Allowed(i) <= 0) =>
               /\ audio_segments[i].duration = 0
               /\ audio_segments[i].audio = [src |-> 0, len |-> 0, fade |-> 0]
               /\ \A m \in audio_result.mixed : m.src # sorted_segments[i].audio.src
    /\ bpc = "done" => exports = <<SyncedPath>>

\* C8 witness: a finished build in which the first of two clips with the
\* same start was skipped.
C8_Witness ==
    /\ bpc = "done"
    /\ exports = <<SyncedPath>>
    /\ \E i \in Pairs :
           /\ OverlapsNext(i)
           /\ Allowed(i) <= 0
           /\ audio_segments[i].duration = 0

\* C9: the silent base track is as long as the maximum of start + duration
\* over the segments after truncation, so every mixed segment lies
\* entirely within it; for A(1000, 5000), B(3000, 2000) it is 5000 long.
C9_TrackLengthPostTruncation ==
    bpc \in {"overlay", "done"} =>
        /\ \A i \in 1 .. Len(audio_segments) :
               audio_segments[i].start + audio_segments[i].duration <= audio_result.len
        /\ \/ audio_segments = <<>> /\ audio_result.len = 0
           \/ \E i \in 1 .. Len(audio_segments) :
                  audio_segments[i].start + audio_segments[i].duration = audio_result.len
        /\ \A m \in audio_result.mixed : m.pos + m.len <= audio_result.len
        /\ (/\ Len(sorted_segments) = 2
            /\ sorted_segments[1].start = 1000 /\ sorted_segments[1].duration = 5000
            /\ sorted_segments[2].start = 3000 /\ sorted_segments[2].duration = 2000)
               => audio_result.len = 5000

\* C9 witness: the example after the export, with both clips mixed in and
\* a track shorter than the longest untruncated end (6000).
C9_Witness ==
    /\ bpc = "done"
    /\ Len(sorted_segments) = 2
    /\ sorted_segments[1].start = 1000 /\ sorted_segments[1].duration = 5000
    /\ sorted_segments[2].start = 3000 /\ sorted_segments[2].duration = 2000
    /\ Cardinality(audio_result.mixed) = 2
    /\ audio_result.len = 5000

NonOverlappingInput ==
    \A i \in Pairs : ~OverlapsNext(i)

\* C10: when the sorted input has no overlapping adjacent pair, the pass
\* leaves the audio, start and duration of every segment as decoded, and
\* the track length is max(start + duration) over the inputs.
C10_NonOverlappingUnchanged ==
    (bpc # "load" /\ NonOverlappingInput) =>
        /\ audio_segments = sorted_segments
        /\ \A k \in 1 .. Len(voice_over_results) :
               \E i \in 1 .. Len(audio_segments) :
                   audio_segments[i] =
                       [audio |-> [src |-> k, len |-> voice_over_results[k].len, fade |-> 0],
                        start |-> voice_over_results[k].minutes * 60000
                                  + voice_over_results[k].seconds * 1000,
                        duration |-> voice_over_results[k].len]
        /\ bpc \in {"overlay", "done"} =>
               /\ \A k \in 1 .. Len(voice_over_results) :
                      voice_over_results[k].minutes * 60000
                          + voice_over_results[k].seconds * 1000
                          + voice_over_results[k].len <= audio_result.len
               /\ \/ voice_over_results = <<>> /\ audio_result.len = 0
                  \/ \E k \in 1 .. Len(voice_over_results) :
                         voice_over_results[k].minutes * 60000
                             + voice_over_results[k].seconds * 1000
                             + voice_over_results[k].len = audio_result.len

\* C10 witness: a finished build of three clips none of which overlapped,
\* two of them touching end to start.
C10_Witness ==
    /\ bpc = "done"
    /\ Len(sorted_segments) = 3
    /\ NonOverlappingInput
    /\ \E i \in Pairs :
           sorted_segments[i].start + sorted_segments[i].duration
               = sorted_segments[i + 1].start

\* ========================================================================
\* Properties of the denoise pipeline (checked under SpecDenoise)
\* ========================================================================

\* The running clean_chatterbox_audio call has ended.
CallEnded == outcome # "none"

\* The paths of the call are valid: the input is a file and the directory
\* of the output exists.
ValidPaths == call.input_is_file /\ call.out_dir_exists

Logged(site) == {k \in 1 .. Len(calls) : calls[k].site = site}

\* C2: when the first pass contains arnndn and exits non-zero, a second
\* pass runs on the same input with a chain without arnndn, and when that
\* pass succeeds the call returns true.
C2_RetrySucceeds ==
    (CallEnded /\ ValidPaths) =>
        \A k \in Logged("filter") :
            (calls[k].exit = "CalledProcessError" /\ calls[k].stages[1] = "arnndn") =>
                /\ k < Len(calls)
                /\ calls[k + 1].site = "fallback"
                /\ calls[k + 1].input = calls[k].input
                /\ \A j \in 1 .. Len(calls[k + 1].stages) : calls[k + 1].stages[j] # "arnndn"
                /\ calls[k + 1].exit = "ok" => outcome = "true"

\* C3: when a call has ended, none of the temp files it created exists
\* any more, whatever the external invocations did.
C3_NoTempFileLeft ==
    (CallEnded /\ ValidPaths) => temps = {}

\* C4: the destination is replaced at most once, and a call that does not
\* return true has not replaced it: it still holds what it held before.
C4_ReplacedOnlyOnSuccess ==
    /\ replaced <= 1
    /\ (replaced = 0) = (dest = "orig")
    /\ (CallEnded /\ outcome # "true") => (replaced = 0 /\ dest = "orig")

\* C4 witness: an in-place call that ended without returning true after
\* its first filter pass had produced a file.
C4_Witness ==
    /\ CallEnded
    /\ outcome # "true"
    /\ call.in_place
    /\ ValidPaths
    /\ \E k \in Logged("filter") : calls[k].exit = "ok"
    /\ dest = "orig"

\* C5: when the initial duration probe fails in any way, the call returns
\* false without raising, runs no filter pass and does not replace the
\* destination.
C5_ProbeFailureReturnsFalse ==
    (CallEnded /\ ValidPaths) =>
        \A k \in Logged("probe") :
            calls[k].exit # "ok" =>
                /\ outcome = "false"
                /\ Logged("filter") = {}
                /\ Logged("fallback") = {}
                /\ Logged("fade") = {}
                /\ replaced = 0

\* C6: clean_multiple returns one DenoiseResult per matched file, in
\* sorted path order, each cleaned in place, whatever happened to earlier
\* files; no match gives an empty list and no external invocation.
C6_OneResultPerFile ==
    (config.entry = "batch" /\ dpc = "exit") =>
        /\ cleaner_exit = "returned"
        /\ Len(results) = Len(files)
        /\ \A i \in 1 .. Len(results) :
               /\ results[i].input_path = files[i]
               /\ results[i].output_path = files[i]
        /\ \A i \in 1 .. (Len(files) - 1) : files[i] < files[i + 1]
        /\ files = <<>> => (results = <<>> /\ calls = <<>>)

\* ========================================================================
\* Properties of the sequential build (checked under SpecSequential)
\* ========================================================================

\* What the concatenated track holds: the chunks and the silent gaps.
Chunks == {m \in audio_result.mixed : m.src # 0}
SilentGaps == {m \in audio_result.mixed : m.src = 0}

\* The sum of the decoded lengths of the first n inputs.
RECURSIVE TotalDuration(_)
TotalDuration(n) ==
    IF n = 0 THEN 0 ELSE TotalDuration(n - 1) + voice_over_results[n].len

\* The sum of the lengths of the chunks before the i-th of the sorted order.
RECURSIVE DurationsBefore(_)
DurationsBefore(i) ==
    IF i <= 1 THEN 0
    ELSE DurationsBefore(i - 1) + voice_over_results[sorted_results[i - 1]].len

SequentialDone == sequential /\ bpc = "done"

\* C11: in sequential mode with n >= 1 segments the exported track is
\* exactly the sum of the segment durations plus (n-1)*gap_ms long: there
\* are n-1 silent gaps of gap_ms, each between two consecutive chunks and
\* none after the last chunk.
C11_SequentialLength ==
    (SequentialDone /\ Len(voice_over_results) >= 1) =>
        LET n == Len(voice_over_results)
        IN /\ exports = <<SequentialPath>>
           /\ audio_result.len = TotalDuration(n) + (n - 1) * gap_ms
           /\ Cardinality(SilentGaps) = n - 1
           /\ \A g \in SilentGaps :
                  /\ g.len = gap_ms
                  /\ \E a, b \in Chunks :
                         /\ a.pos + a.len = g.pos
                         /\ g.pos + g.len = b.pos

\* C11 witness: durations 1000, 2000, 1500 with a gap of 1000 exported as
\* a track of 6500 ms.
C11_Witness ==
    /\ SequentialDone
    /\ Len(voice_over_results) = 3
    /\ voice_over_results[1].len = 1000
    /\ voice_over_results[2].len = 2000
    /\ voice_over_results[3].len = 1500
    /\ gap_ms = 1000
    /\ audio_result.len = 6500
    /\ exports = <<SequentialPath>>

\* C12: in sequential mode the chunks are taken in ascending order of
\* minutes*60 + seconds, ties in input order, and the k-th chunk of that
\* order (k from 0) lies at the sum of the durations before it plus
\* k*gap_ms, whatever its timestamp is.
C12_SequentialOrderAndPlacement ==
    (sequential /\ bpc \in {"append", "done"}) =>
        LET n == Len(voice_over_results)
            key(i) == voice_over_results[sorted_results[i]].minutes * 60
                      + voice_over_results[sorted_results[i]].seconds
        IN /\ Len(sorted_results) = n
           /\ {sorted_results[i] : i \in 1 .. n} = 1 .. n
           /\ \A i, j \in 1 .. n :
                  i < j => \/ key(i) < key(j)
                           \/ key(i) = key(j) /\ sorted_results[i] < sorted_results[j]
           /\ Cardinality(Chunks) = idx - 1
           /\ \A i \in 1 .. (idx - 1) :
                  [src |-> sorted_results[i],
                   pos |-> DurationsBefore(i) + (i - 1) * gap_ms,
                   len |-> voice_over_results[sorted_results[i]].len,
                   fade |-> 0, cut |-> 0] \in audio_result.mixed

\* C12 witness: a finished build of three chunks given out of order, two
\* of them with the same timestamp, none placed at its timestamp.
C12_Witness ==
    /\ SequentialDone
    /\ sorted_results = <<3, 1, 2>>
    /\ voice_over_results[1].minutes = voice_over_results[2].minutes
    /\ voice_over_results[1].seconds = voice_over_results[2].seconds
    /\ gap_ms = 1000
    /\ Cardinality(Chunks) = 3
    /\ \A m \in Chunks :
           m.pos # voice_over_results[m.src].minutes * 60000
                   + voice_over_results[m.src].seconds * 1000

\* ========================================================================
\* More properties of the denoise pipeline (checked under SpecDenoise)
\* ========================================================================

\* The invocations of the first filter stage: the first pass and its retry.
FirstStage == Logged("filter") \cup Logged("fallback")

HasStage(k, stage) == \E j \in 1 .. Len(calls[k].stages) : calls[k].stages[j] = stage

\* C13: once a first or fallback pass has succeeded, a failure of the
\* re-probe or of the fade-only pass, of whatever kind, still ends the call
\* with the first/fallback-pass output published and the value true.
C13_TrimSurvivesSecondPass ==
    (CallEnded /\ ValidPaths) =>
        ((/\ \E k \in FirstStage : calls[k].exit = "ok"
          /\ \E k \in Logged("reprobe") \cup Logged("fade") : calls[k].exit # "ok")
            => (outcome = "true" /\ dest = "tmp1" /\ replaced = 1))

\* C14: the first filter stage runs at most twice; the retry runs only
\* right after a failed first pass whose chain had the arnndn stage; a
\* failed first pass without arnndn ends the call with false and no retry,
\* and so does a failed retry.
C14_RetryAtMostOnce ==
    /\ Cardinality(Logged("filter")) <= 1
    /\ Cardinality(Logged("fallback")) <= 1
    /\ \A k \in Logged("fallback") :
           /\ k > 1
           /\ calls[k - 1].site = "filter"
           /\ calls[k - 1].exit # "ok"
           /\ HasStage(k - 1, "arnndn")
    /\ CallEnded =>
           /\ \A k \in Logged("filter") :
                  (calls[k].exit # "ok" /\ ~HasStage(k, "arnndn")) =>
                      (outcome = "false" /\ Logged("fallback") = {})
           /\ \A k \in Logged("fallback") :
                  calls[k].exit # "ok" => outcome = "false"

\* C14 witness: a call that ended with false after both the first pass
\* and its retry had failed.
C14_Witness ==
    /\ CallEnded
    /\ outcome = "false"
    /\ \E k \in Logged("filter") : calls[k].exit = "CalledProcessError"
    /\ \E k \in Logged("fallback") : calls[k].exit # "ok"
    /\ Cardinality(FirstStage) = 2

\* The external invocations clean_chatterbox_audio itself makes (the
\* metric probes belong to AudioCleaner.clean).
OwnCalls == {k \in 1 .. Len(calls) : calls[k].site \notin {"metrics_in", "metrics_out"}}

\* C15: when every external invocation of the call fails because the tool
\* is not found, the call returns false and does not raise, for WAV inputs
\* and for inputs that need conversion.
C15_MissingToolsReturnFalse ==
    (/\ CallEnded
     /\ OwnCalls # {}
     /\ \A k \in OwnCalls : calls[k].exit = "FileNotFoundError")
        => /\ outcome = "false"
           /\ replaced = 0
           /\ \A k \in OwnCalls : calls[k].site = IF call.is_wav THEN "probe" ELSE "convert"

\* C15 witness: a direct call on a non-WAV input whose conversion did not
\* find the tool.
C15_Witness ==
    /\ config.entry = "direct"
    /\ CallEnded
    /\ ~call.is_wav
    /\ ValidPaths
    /\ Len(calls) = 1
    /\ calls[1].site = "convert"
    /\ calls[1].exit = "FileNotFoundError"
    /\ outcome = "false"

\* AudioCleaner.clean has returned for the current file.
CleanReturned == config.entry \in {"clean", "batch"} /\ dpc \in {"exit", "loop"}

\* C16: AudioCleaner.clean on an input that is not an existing file, or on
\* an output whose directory does not exist, returns a result with
\* success false and an error message, and invokes no external tool.
C16_InvalidPathsRejected ==
    /\ (config.entry \in {"clean", "batch"} /\ ~ValidPaths) => calls = <<>>
    /\ (CleanReturned /\ ~ValidPaths) =>
           /\ cleaner_exit # "raised"
           /\ results # <<>>
           /\ results[Len(results)].success = FALSE
           /\ results[Len(results)].error # "None"
           /\ results[Len(results)].input_path = call.path
           /\ outcome = "none"
           /\ replaced = 0

\* C16 witness: a lone clean() that returned for an existing input and an
\* output in a missing directory.
C16_Witness ==
    /\ config.entry = "clean"
    /\ dpc = "exit"
    /\ call.input_is_file
    /\ ~call.out_dir_exists
    /\ Len(results) = 1
    /\ results[1].error = "msg"

\* C17 as stated: clean_chatterbox_audio called directly with an invalid
\* input or output path invokes no external tool.
C17_DirectCallValidates ==
    (config.entry = "direct" /\ ~ValidPaths) => calls = <<>>

\* C17 amended: clean_chatterbox_audio called directly does not validate.
\* With an input that is not a file it makes exactly one external
\* invocation (the conversion of a non-WAV input, the duration probe of a
\* WAV one), which fails, and returns false without a filter pass; with
\* only the output directory missing it runs its tools and ends without
\* replacing the destination and without returning true.
C17_DirectCallRunsTools ==
    (config.entry = "direct" /\ CallEnded) =>
        /\ ~call.input_is_file =>
               /\ Len(calls) = 1
               /\ calls[1].site = IF call.is_wav THEN "probe" ELSE "convert"
               /\ calls[1].exit # "ok"
               /\ outcome = "false"
               /\ replaced = 0
        /\ (call.input_is_file /\ ~call.out_dir_exists) =>
               /\ calls # <<>>
               /\ replaced = 0
               /\ outcome # "true"

\* C17 witness: a direct call on a missing WAV input that ended after the
\* probe had been run on it.
C17_Witness ==
    /\ config.entry = "direct"
    /\ CallEnded
    /\ ~call.input_is_file
    /\ call.is_wav
    /\ Len(calls) = 1
    /\ calls[1].tool = "ffprobe"
    /\ calls[1].exit = "CalledProcessError"
    /\ outcome = "false"

\* C20: the chain of a first-stage pass has the arnndn stage exactly when
\* a model path was passed to _build_filter_chain and it is an existing
\* file; it always has exactly one silenceremove directly followed by
\* exactly one afade, at its end, and arnndn, when present, is first.
C20_FilterChainShape ==
    \A k \in FirstStage :
        LET st == calls[k].stages
            supplied == IF calls[k].site = "filter" THEN call.rnnoise_model_path ELSE "None"
            count(x) == Cardinality({j \in 1 .. Len(st) : st[j] = x})
        IN /\ HasStage(k, "arnndn") <=> (supplied # "None" /\ IsFile(supplied))
           /\ count("silenceremove") = 1
           /\ count("afade") = 1
           /\ count("arnndn") <= 1
           /\ st[Len(st) - 1] = "silenceremove"
           /\ st[Len(st)] = "afade"
           /\ Len(st) = IF HasStage(k, "arnndn") THEN 3 ELSE 2
           /\ HasStage(k, "arnndn") => st[1] = "arnndn"

\* C20 witness: a call whose first pass ran the three-stage chain and
\* whose retry ran the chain built without a model path.
C20_Witness ==
    /\ \E k \in Logged("filter") : calls[k].stages = <<"arnndn", "silenceremove", "afade">>
    /\ \E k \in Logged("fallback") : calls[k].stages = <<"silenceremove", "afade">>
    /\ call.rnnoise_model_path = "model.rnnn"

\* ========================================================================
\* Decode errors in the builders (checked under SpecBuilders)
\* ========================================================================

\* C18: when the audio of some segment cannot be decoded, the build, synced
\* or sequential, ends with the decode error and nothing is ever exported,
\* whatever had been decoded before the error.
C18_DecodeErrorFailsBuild ==
    /\ undecodable # {} =>
           /\ exports = <<>>
           /\ bpc \in {"load", "sort", "append", "raised"}
    /\ build_error # "none" =>
           /\ bpc = "raised"
           /\ build_error = "DecodeError"
           /\ exports = <<>>
           /\ undecodable # {}

\* C18 witness: a sequential build stopped by the decode error of a later
\* chunk, after earlier chunks had been appended, with nothing exported.
C18_Witness ==
    /\ sequential
    /\ bpc = "raised"
    /\ build_error = "DecodeError"
    /\ idx >= 2
    /\ audio_result.len > 0
    /\ exports = <<>>

\* ========================================================================
\* Properties of the speech generation (checked under SpecSpeech)
\* ========================================================================

Steps(t, op) == {i \in 1 .. Len(speech_log[t]) : speech_log[t][i] = op}

\* C19: every task whose generate_speech has run the MP3 conversion has
\* invoked clean_audio exactly once, after writing the WAV and before the
\* conversion.
C19_CleanedOnceBeforeMp3 ==
    \A t \in Tasks :
        Steps(t, "ffmpeg") # {} =>
            /\ Cardinality(Steps(t, "clean_audio")) = 1
            /\ \A c \in Steps(t, "clean_audio") :
                   /\ \A w \in Steps(t, "ta.save") : w < c
                   /\ \A f \in Steps(t, "ffmpeg") : c < f

\* ========================================================================
\* Properties of a single cleaning call (checked under SpecCall)
\* ========================================================================

\* C21: the fade-out start of every chain is max(0, duration - 30 ms): of
\* the duration before the trim in the first pass and its retry, of the
\* trimmed duration in the fade-only pass; it is never negative, 1970 ms
\* for a 2000 ms clip and 0 for a 10 ms clip.
C21_FadeStartClamped ==
    LET expected(d) == IF d - 30 > 0 THEN d - 30 ELSE 0
    IN /\ \A k \in FirstStage :
              /\ calls[k].st = expected(call.duration)
              /\ HasStage(k, "afade")
       /\ \A k \in Logged("fade") :
              /\ calls[k].st = expected(call.trimmed)
              /\ calls[k].stages = <<"afade">>
       /\ \A k \in 1 .. Len(calls) :
              /\ calls[k].st >= 0
              /\ (calls[k].site = "filter" /\ call.duration = 2000) => calls[k].st = 1970
              /\ (calls[k].site = "filter" /\ call.duration = 10) => calls[k].st = 0

\* C21 witness: a 2000 ms clip whose first pass faded at 1970 ms and whose
\* trimmed 10 ms remainder was faded from 0 in the fade-only pass.
C21_Witness ==
    /\ call.duration = 2000
    /\ call.trimmed = 10
    /\ \E k \in Logged("filter") : calls[k].st = 1970
    /\ \E k \in Logged("fade") : calls[k].st = 0

\* clean_chatterbox_audio has resolved its model path.
Entered ==
    \/ dpc \in {"convert", "probe", "filter", "fallback", "reprobe", "fade",
                "outprobe", "metrics_out"}
    \/ CallEnded

\* C22: a cleaning call, direct or through AudioCleaner, uses the model
\* path it was given and, without one, the value of RNNOISE_MODEL_PATH;
\* with neither set no chain has the arnndn stage and a call whose
\* invocations all succeed returns true.
C22_ModelPathResolution ==
    LET neither == config.arg_model = "None" /\ config.env_model = "None"
    IN /\ Entered =>
              call.rnnoise_model_path =
                  IF config.arg_model # "None" THEN config.arg_model
                  ELSE config.env_model
       /\ neither => \A k \in 1 .. Len(calls) : ~HasStage(k, "arnndn")
       /\ (/\ neither
           /\ CallEnded
           /\ ValidPaths
           /\ \A k \in OwnCalls : calls[k].exit = "ok") => outcome = "true"

\* C22 witness: an AudioCleaner made without a model path, whose call ran
\* the arnndn stage with the model named by the environment variable.
C22_Witness ==
    /\ config.entry = "clean"
    /\ config.arg_model = "None"
    /\ config.env_model = "model.rnnn"
    /\ call.rnnoise_model_path = "model.rnnn"
    /\ \E k \in Logged("filter") : HasStage(k, "arnndn")

\* ========================================================================
\* More properties of the synced build (checked under SpecSynced)
\* ========================================================================

\* The start time and decoded length of the k-th input of the caller.
InputStart(k) == voice_over_results[k].minutes * 60000 + voice_over_results[k].seconds * 1000
InputLen(k) == voice_over_results[k].len

Inputs == 1 .. Len(voice_over_results)

DistinctStarts == \A j, k \in Inputs : j # k => InputStart(j) # InputStart(k)

\* Where input k belongs by its start time alone, and the start of the
\* input that follows it in time (0 when there is none).
RankByStart(k) == 1 + Cardinality({j \in Inputs : InputStart(j) < InputStart(k)})
LaterStarts(k) == {InputStart(j) : j \in {i \in Inputs : InputStart(i) > InputStart(k)}}
FollowingStart(k) ==
    IF LaterStarts(k) = {} THEN 0
    ELSE CHOOSE n \in LaterStarts(k) : \A m \in LaterStarts(k) : n <= m

\* The duration input k must end up with, from the set of inputs alone.
SettledDuration(k) ==
    IF LaterStarts(k) = {} \/ InputStart(k) + InputLen(k) <= FollowingStart(k)
    THEN InputLen(k)
    ELSE IF FollowingStart(k) - InputStart(k) - 50 > 0
         THEN FollowingStart(k) - InputStart(k) - 50
         ELSE 0

\* C23: with pairwise distinct start times the resolved (start, duration)
\* sequence and the track length of a synced build are determined by the
\* set of segments alone, so every order of passing the same segments
\* gives the same sequence and the same track length.
C23_OrderIndependent ==
    (PassDone /\ DistinctStarts) =>
        /\ Len(audio_segments) = Len(voice_over_results)
        /\ \A k \in Inputs :
               /\ audio_segments[RankByStart(k)].start = InputStart(k)
               /\ audio_segments[RankByStart(k)].duration = SettledDuration(k)
        /\ bpc \in {"overlay", "done"} =>
               /\ \A k \in Inputs : InputStart(k) + SettledDuration(k) <= audio_result.len
               /\ \/ Inputs = {} /\ audio_result.len = 0
                  \/ \E k \in Inputs : InputStart(k) + SettledDuration(k) = audio_result.len

\* C23 witness: a finished build of three segments passed latest first,
\* one of which had to be truncated.
C23_Witness ==
    /\ bpc = "done"
    /\ ~sequential
    /\ Len(voice_over_results) = 3
    /\ InputStart(1) > InputStart(2)
    /\ InputStart(2) > InputStart(3)
    /\ \E k \in Inputs : SettledDuration(k) # InputLen(k) /\ SettledDuration(k) > 0
    /\ exports = <<SyncedPath>>

\* ========================================================================
\* Properties of AudioBuilder.build (checked under SpecBuild)
\* ========================================================================

MetricsProbe(site, exit) ==
    \E k \in 1 .. Len(calls) : calls[k].site = site /\ calls[k].exit = exit

\* C25: the metrics are best-effort. The input is probed before the
\* cleaning and the output after it; duration_saved is set only on a
\* successful result whose two probes succeeded, and then it is
\* input_duration - output_duration; the success flag is the return value
\* of clean_chatterbox_audio whatever the metrics probes did.
C25_MetricsBestEffort ==
    /\ \A k \in Logged("metrics_in") : \A j \in OwnCalls : k < j
    /\ \A k \in Logged("metrics_out") : \A j \in OwnCalls : j < k
    /\ \A i \in 1 .. Len(results) :
          LET r == results[i] IN
          /\ r.duration_saved # NoDuration =>
                /\ r.success
                /\ MetricsProbe("metrics_in", "ok")
                /\ MetricsProbe("metrics_out", "ok")
                /\ r.duration_saved = r.input_duration - r.output_duration
          /\ (r.success /\ MetricsProbe("metrics_in", "ok")
                        /\ MetricsProbe("metrics_out", "ok")) =>
                /\ r.input_duration = call.duration
                /\ r.output_duration = call.trimmed
                /\ r.duration_saved = call.duration - call.trimmed
          /\ MetricsProbe("metrics_in", "failed") => r.input_duration = NoDuration
          /\ MetricsProbe("metrics_out", "failed") => r.output_duration = NoDuration
          /\ outcome # "none" => r.success = (outcome = "true")

\* C25 witness: a successful result whose input probe failed: the call
\* still returned True and duration_saved stayed unset while the output
\* duration was measured.
C25_Witness ==
    /\ CleanReturned
    /\ Len(results) = 1
    /\ results[1].success
    /\ outcome = "true"
    /\ MetricsProbe("metrics_in", "failed")
    /\ MetricsProbe("metrics_out", "ok")
    /\ results[1].output_duration # NoDuration
    /\ results[1].duration_saved = NoDuration

\* C25 witness of the measured case: both probes succeeded.
C25_WitnessSaved ==
    /\ CleanReturned
    /\ Len(results) = 1
    /\ results[1].duration_saved # NoDuration
    /\ results[1].duration_saved = call.duration - call.trimmed

\* ========================================================================
\* Order of the external invocations of one call (checked under SpecCall)
\* ========================================================================

\* The place of an invocation site in the order of one call.
SiteRank(site) ==
    CASE site = "convert"  -> 1
      [] site = "probe"    -> 2
      [] site = "filter"   -> 3
      [] site = "fallback" -> 4
      [] site = "reprobe"  -> 5
      [] site = "fade"     -> 6
      [] site = "outprobe" -> 7
      [] OTHER             -> 0

\* The canonical working copy: the converted file when a conversion was
\* made, the input itself otherwise.
WorkingCopy == IF Logged("convert") # {} THEN "converted" ELSE "input"

\* C26: the invocations of one clean_chatterbox_audio call are made one
\* after another in the order conversion, probe, first pass, fallback
\* pass, re-probe, fade-only pass, output probe (each step optional or
\* skipped on failure, none repeated, none out of order); the first and
\* fallback passes read the canonical working copy, the fade-only pass
\* reads the file the first or fallback pass wrote, and a fade-only pass
\* is logged only after a first or fallback pass that succeeded.
C26_InvocationOrder ==
    /\ \A j, k \in OwnCalls : j < k => SiteRank(calls[j].site) < SiteRank(calls[k].site)
    /\ \A k \in OwnCalls : SiteRank(calls[k].site) >= 1
    /\ \A k \in Logged("probe") : calls[k].input = WorkingCopy
    /\ \A k \in FirstStage : calls[k].input = WorkingCopy /\ calls[k].output = "tmp1"
    /\ \A k \in Logged("reprobe") : calls[k].input = "tmp1"
    /\ \A k \in Logged("fade") :
          /\ calls[k].input = "tmp1"
          /\ \E j \in FirstStage :
                j < k /\ calls[j].exit = "ok" /\ calls[j].output = calls[k].input
          /\ \E j \in Logged("reprobe") : j < k /\ calls[j].exit = "ok"
    /\ \A k \in Logged("fallback") :
          \E j \in Logged("filter") : j < k /\ calls[j].exit # "ok"
    /\ \A k \in Logged("outprobe") : Logged("fade") # {}

\* C26 witness: a call that went through all seven invocations, the
\* conversion and the fallback included.
C26_Witness ==
    /\ dpc = "exit"
    /\ outcome = "true"
    /\ Cardinality(OwnCalls) = 7
    /\ [k \in 1 .. 7 |-> calls[Sorted(OwnCalls)[k]].site]
           = <<"convert", "probe", "filter", "fallback", "reprobe", "fade", "outprobe">>

\* ========================================================================
\* Failed results of AudioCleaner.clean (checked under SpecCall)
\* ========================================================================

\* C29: in a DenoiseResult with success false the error field is set
\* exactly when the paths failed validation (then nothing was invoked);
\* a processing failure, where clean_chatterbox_audio returned False,
\* has error None; either way output_duration and duration_saved are
\* None.
C29_FailureKinds ==
    \A i \in 1 .. Len(results) :
        ~results[i].success =>
            /\ results[i].error # "None" <=>
                   ~(call.input_is_file /\ call.out_dir_exists)
            /\ results[i].error # "None" => calls = <<>> /\ outcome = "none"
            /\ results[i].error = "None" => outcome = "false"
            /\ results[i].output_duration = NoDuration
            /\ results[i].duration_saved = NoDuration

\* C29 witness: a processing failure after a measured input: the result
\* has no error, an input duration, and no output duration.
C29_Witness ==
    /\ CleanReturned
    /\ Len(results) = 1
    /\ ~results[1].success
    /\ outcome = "false"
    /\ results[1].error = "None"
    /\ results[1].input_duration # NoDuration
    /\ results[1].output_duration = NoDuration

\* C29 witness of the other kind: a validation failure with its message.
C29_WitnessValidation ==
    /\ CleanReturned
    /\ Len(results) = 1
    /\ ~results[1].success
    /\ results[1].error # "None"
    /\ calls = <<>>

\* ========================================================================
\* Termination of one call (checked under SpecCall, whose fairness says
\* that every external invocation returns)
\* ========================================================================

\* The invocations of the call so far that ran the given tool.
ToolCalls(tool) == {k \in OwnCalls : calls[k].tool = tool}

\* At most one invocation per ffmpeg site, four in all, and at most
\* three probes.
C30_Bounded ==
    /\ \A site \in {"convert", "filter", "fallback", "fade"} :
           Cardinality(Logged(site)) <= 1
    /\ \A k \in ToolCalls("ffmpeg") :
           calls[k].site \in {"convert", "filter", "fallback", "fade"}
    /\ Cardinality(ToolCalls("ffmpeg")) <= 4
    /\ Cardinality(ToolCalls("ffprobe")) <= 3

\* C30: every clean_chatterbox_audio call that is entered ends (returns
\* or raises), and at no point has it made more than four ffmpeg
\* invocations (one conversion, one first pass, one fallback pass, one
\* fade-only pass) or more than three duration probes.
C30_Terminates ==
    /\ []C30_Bounded
    /\ (dpc = "entry") ~> CallEnded

\* C30 witness: a call that ended after the most it can do: four ffmpeg
\* invocations and three probes.
C30_Witness ==
    /\ CallEnded
    /\ Cardinality(ToolCalls("ffmpeg")) = 4
    /\ Cardinality(ToolCalls("ffprobe")) = 3

\* ========================================================================
\* Order of the overlap pass (checked under SpecSynced)
\* ========================================================================

\* The effect of handling pair (i, i+1) on a list of segments.
ResolveAt(segs, i) ==
    [segs EXCEPT ![i] = ResolveSegment(segs[i], segs[i + 1].start)]

\* The pairs handled one after another in the given order.
RECURSIVE PassInOrder(_, _)
PassInOrder(segs, order) ==
    IF order = <<>> THEN segs
    ELSE PassInOrder(ResolveAt(segs, Head(order)), Tail(order))

\* Every pair evaluated on the freshly sorted list, none seeing the
\* result of another.
PassInParallel(segs) ==
    [i \in 1 .. Len(segs) |->
        IF i < Len(segs) THEN ResolveSegment(segs[i], segs[i + 1].start) ELSE segs[i]]

\* C27 as stated: an iteration that changes the working copy changes
\* what the comparison of the next pair reads, namely segment i+1 and
\* the start of segment i+2.
C27_ResolutionFeedsNextPair ==
    [][(/\ bpc = "pass"
        /\ idx + 2 <= Len(audio_segments)
        /\ audio_segments' # audio_segments)
       => <<audio_segments'[idx + 1], audio_segments'[idx + 2].start>>
              # <<audio_segments[idx + 1], audio_segments[idx + 2].start>>]_vars

\* C27 amended: the overlap pass does not depend on its order. While it
\* runs, every segment from the current index on, the one the next
\* comparison reads included, is still the freshly sorted one; and once
\* it is done the working copy equals what handling the pairs in any
\* order, or all at once on the sorted list, produces.
C27_PassOrderIndependent ==
    /\ bpc = "pass" =>
          \A j \in idx .. Len(audio_segments) : audio_segments[j] = sorted_segments[j]
    /\ PassDone =>
          /\ \A order \in Orders(Pairs) :
                 PassInOrder(sorted_segments, order) = audio_segments
          /\ PassInParallel(sorted_segments) = audio_segments

\* C27 witness: a finished pass over three segments that changed both
\* the first and the second, so that the second pair was compared after
\* the first had been rewritten.
C27_Witness ==
    /\ PassDone
    /\ Len(audio_segments) = 3
    /\ audio_segments[1] # sorted_segments[1]
    /\ audio_segments[2] # sorted_segments[2]

\* ========================================================================
\* Intermediate WAV files of the pool workers (checked under SpecSpeech)
\* ========================================================================

\* C28: while a worker is between its ta.save and the end of its MP3
\* conversion, the WAV at its path is the one it wrote: no other worker
\* has overwritten or deleted it, so the conversion finds its WAV.
C28_WavKeptForConversion ==
    \A t \in Tasks :
        tpc[t] = "convert" => wav_files[FileName(clips[t])] = t

====
